---- MODULE Spec2Model ----
(***************************************************************************)
(* Model of the pairpad client engine (src/client/engine.go): the key      *)
(* handler, the remote-message handler, the network-receiving goroutine,   *)
(* the status goroutine and the draw loop of each replica, together with   *)
(* the document and editor operations they call.                           *)
(*                                                                         *)
(* The packages crdt, editor and commons and the main loop that calls the  *)
(* two handlers lie outside engine.go; their definitions below follow the  *)
(* design specification and the way engine.go uses them.                   *)
(***************************************************************************)
EXTENDS Integers, Sequences, FiniteSets, TLC

(***************************************************************************)
(* Bounds of the model.                                                    *)
(***************************************************************************)
MaxNodes == 3       \* nodes (tombstones included) a document may hold
MaxStatus == 2      \* messages the status channel holds before a sender blocks
MaxDraw == 1        \* pending redraw requests before SendDraw blocks
MaxNet == 3         \* operation messages in flight towards one replica

Replicas == {1, 2}

\* Runes a key event may carry.  "é" is a two-byte rune in UTF-8, the others
\* are one byte long.
Chars == {"a", "b", "é"}
ByteLen(s) == IF s = "" THEN 0 ELSE IF s = "é" THEN 2 ELSE 1

OperationInsert == 0
OperationDelete == 1

(***************************************************************************)
(* crdt.Document.  A document is the sequence of its character nodes in    *)
(* identifier order, the two sentinel nodes left out; a node is its value  *)
(* and its visibility.  Identifiers are represented by the position they   *)
(* give the node in the sequence.                                          *)
(***************************************************************************)
Node(v) == [Value |-> v, Visible |-> TRUE]
NewDoc == << >>

RECURSIVE Content(_)
Content(d) ==
    IF d = << >> THEN << >>
    ELSE (IF Head(d).Visible THEN <<Head(d).Value>> ELSE << >>) \o Content(Tail(d))

\* Indices in d of the visible nodes, in order.
RECURSIVE VisibleFrom(_, _)
VisibleFrom(d, i) ==
    IF i > Len(d) THEN << >>
    ELSE (IF d[i].Visible THEN <<i>> ELSE << >>) \o VisibleFrom(d, i + 1)

VisibleIdx(d) == VisibleFrom(d, 1)
VisibleLength(d) == Len(VisibleIdx(d))

\* doc.Insert(position, value): the new node becomes the position-th visible
\* character (positions count from 1).  Returns the document, the content
\* and the error.
DocInsert(d, position, value) ==
    IF position < 1 \/ position > VisibleLength(d) + 1
    THEN [doc |-> d, text |-> Content(d), err |-> "IndexOutOfRange"]
    ELSE LET at == IF position = 1 THEN 0 ELSE VisibleIdx(d)[position - 1]
             nd == SubSeq(d, 1, at) \o <<Node(value)>> \o SubSeq(d, at + 1, Len(d))
         IN  [doc |-> nd, text |-> Content(nd), err |-> "nil"]

\* doc.Delete(position): the position-th visible character is tombstoned.
\* The Go method returns the content only; err records what the document
\* decided.
DocDelete(d, position) ==
    IF position < 1 \/ position > VisibleLength(d)
    THEN [doc |-> d, text |-> Content(d), err |-> "IndexOutOfRange"]
    ELSE LET nd == [d EXCEPT ![VisibleIdx(d)[position]].Visible = FALSE]
         IN  [doc |-> nd, text |-> Content(nd), err |-> "nil"]

(***************************************************************************)
(* editor.Editor: Text is a sequence of runes, Cursor an index into it.    *)
(***************************************************************************)
\* e.MoveCursor(x, 0) on text t with cursor c: the new cursor.
MoveCursor(t, c, x) ==
    LET n == c + x
    IN  IF n < 0 THEN 0 ELSE IF n > Len(t) THEN Len(t) ELSE n

(***************************************************************************)
(* commons.Message                                                         *)
(***************************************************************************)
DocSyncMessage == "docSync"
DocReqMessage == "docReq"
SiteIDMessage == "SiteID"
JoinMessage == "join"
UsersMessage == "users"

Msg(t, ot, p, v, d, txt, id) ==
    [Type |-> t, OpType |-> ot, Position |-> p, Value |-> v,
     Document |-> d, Text |-> txt, ID |-> id]

OpMsg(ot, p, v) == Msg("operation", ot, p, v, NewDoc, "", 0)
DocSyncMsg(d, id) == Msg(DocSyncMessage, "", 0, "", d, "", id)
DocReqMsg(id) == Msg(DocReqMessage, "", 0, "", NewDoc, "", id)
SiteIDMsg(txt) == Msg(SiteIDMessage, "", 0, "", NewDoc, txt, 0)
JoinMsg(name) == Msg(JoinMessage, "", 0, "", NewDoc, name, 0)
UsersMsg(txt) == Msg(UsersMessage, "", 0, "", NewDoc, txt, 0)
NoMsg == Msg("none", "", 0, "", NewDoc, "", 0)

\* strconv.Atoi on the texts a site-assignment message carries here: the
\* value and whether an error is returned (the value is 0 then).
Atoi(txt) ==
    CASE txt = "1" -> [val |-> 1, err |-> FALSE]
      [] txt = "2" -> [val |-> 2, err |-> FALSE]
      [] OTHER     -> [val |-> 0, err |-> TRUE]

\* strings.Split(text, ",") on the user lists carried here.
SplitUsers(txt) ==
    CASE txt = "u1,u2" -> <<"u1", "u2">>
      [] OTHER         -> <<txt>>

(***************************************************************************)
(* State.  Every variable is a function of the replica.                    *)
(***************************************************************************)
VARIABLES
    doc,            \* the package-level document of the client
    Text,           \* e.Text
    Cursor,         \* e.Cursor
    IsConnected,    \* e.IsConnected
    SiteID,         \* crdt.SiteID
    Users,          \* e.Users
    fileName,       \* the package-level file name
    StatusChan,     \* e.StatusChan, the messages sent and not yet received
    DrawChan,       \* e.DrawChan, the number of pending redraw requests
    StatusMsg,      \* e.StatusMsg
    ShowMsg,        \* e.ShowMsg
    statusPc,       \* position of handleStatusMsg: "recv" or "sleep"
    recvPc,         \* position of the goroutine of getMsgChan
    recvMsg,        \* the message that goroutine holds
    readErr,        \* whether a read of the connection has failed
    mainPc,         \* position of the main loop: "select" or inside a handler
    pend,           \* the event the main loop is handling or has handled last
    sent,           \* messages the latest handler call wrote to the connection
    hteRet,         \* what the latest handleTermboxEvent call returned
    opErr,          \* the error the latest handler call got from the document
    siteAssigned,   \* whether a site-assignment message has been handled
    net,            \* operation messages relayed towards the replica, unread
    joined,         \* the replicas of the session
    typing          \* whether the users are still typing (convergence scenario)

vars == <<doc, Text, Cursor, IsConnected, SiteID, Users, fileName, StatusChan,
          DrawChan, StatusMsg, ShowMsg, statusPc, recvPc, recvMsg, readErr,
          mainPc, pend, sent, hteRet, opErr, siteAssigned, net, joined, typing>>

statusVars == <<StatusMsg, ShowMsg, statusPc>>
recvVars == <<recvPc, recvMsg, readErr>>
localVars == <<doc, Text, Cursor, IsConnected, SiteID, Users, fileName,
               sent, hteRet, opErr, siteAssigned>>

Upd(f, r, v) == [f EXCEPT ![r] = v]

Status(fmt, arg) == <<fmt, arg>>
LostConnection == Status("lost connection!", "")

\* The state of replica r a handler works on.
St(r) ==
    [doc |-> doc[r], Text |-> Text[r], Cursor |-> Cursor[r],
     IsConnected |-> IsConnected[r], SiteID |-> SiteID[r], Users |-> Users[r],
     fileName |-> fileName[r], StatusChan |-> StatusChan[r],
     DrawChan |-> DrawChan[r], sent |-> sent[r], hteRet |-> hteRet[r],
     opErr |-> opErr[r], siteAssigned |-> siteAssigned[r]]

(***************************************************************************)
(* Events: a key or a message together with what the environment does      *)
(* during its handler (whether a write to the connection or a save         *)
(* succeeds, what crdt.Load returns).                                      *)
(***************************************************************************)
LoadErr == [ok |-> FALSE, doc |-> NewDoc]
Loaded(d) == [ok |-> TRUE, doc |-> d]

KeyEv(key, ch, ok, load) ==
    [kind |-> "key", Key |-> key, Ch |-> ch, ok |-> ok, load |-> load, msg |-> NoMsg]
MsgEv(m, ok) ==
    [kind |-> "msg", Key |-> "", Ch |-> "", ok |-> ok, load |-> LoadErr, msg |-> m]
NoEv == [kind |-> "none", Key |-> "", Ch |-> "", ok |-> TRUE, load |-> LoadErr, msg |-> NoMsg]

SendDraw(s) == [s EXCEPT !.DrawChan = @ + 1]
SendStatus(s, st) == [s EXCEPT !.StatusChan = Append(@, st)]

(***************************************************************************)
(* performOperation.  The handlers are written in two parts: the mutation  *)
(* of the document, and the rest of the handler, which starts with the     *)
(* read of the content of the mutated document.                            *)
(***************************************************************************)
\* Lines 158-160: the cursor doc.Delete is called with.
DeleteCursor(c) == IF c - 1 < 0 THEN 0 ELSE c

\* performOperationDoc, were the local edit made only while connected.
performOperationDocOnline(s, opType, ch) ==
    IF ~s.IsConnected
    THEN [doc |-> s.doc, err |-> "nil"]
    ELSE IF opType = OperationInsert
    THEN LET r == DocInsert(s.doc, s.Cursor + 1, ch)
         IN  [doc |-> r.doc, err |-> r.err]
    ELSE LET r == DocDelete(s.doc, DeleteCursor(s.Cursor))
         IN  [doc |-> r.doc, err |-> "nil"]

\* The document operation of performOperation: the document afterwards and
\* the error performOperation receives (doc.Delete returns none).
performOperationDoc(s, opType, ch) ==
    IF opType = OperationInsert
    THEN LET r == DocInsert(s.doc, s.Cursor + 1, ch)
         IN  [doc |-> r.doc, err |-> r.err]
    ELSE LET r == DocDelete(s.doc, DeleteCursor(s.Cursor))
         IN  [doc |-> r.doc, err |-> "nil"]

\* Lines 169-176: the message is written when the replica is connected; a
\* failed write (ok = FALSE) disconnects it and reports the lost connection.
Send(s, msg, ok) ==
    IF s.IsConnected
    THEN IF ok
         THEN [s EXCEPT !.sent = Append(@, msg)]
         ELSE SendStatus([s EXCEPT !.IsConnected = FALSE], LostConnection)
    ELSE s

\* performOperationRest, were the cursor left where it was after an insert.
performOperationRestNoMove(s, opType, ch, ok) ==
    LET text == Content(s.doc)
    IN  IF opType = OperationInsert
        THEN LET s1 == [s EXCEPT !.Text = text]
             IN  Send(s1, OpMsg("insert", s1.Cursor, ch), ok)
        ELSE LET c0 == DeleteCursor(s.Cursor)
                 s1 == [s EXCEPT !.Text = text, !.Cursor = MoveCursor(text, c0, -1)]
             IN  Send(s1, OpMsg("delete", c0, ""), ok)

\* The rest of performOperation, on the state s that holds the mutated
\* document.
performOperationRest(s, opType, ch, ok) ==
    LET text == Content(s.doc)
    IN  IF opType = OperationInsert
        THEN LET s1 == [s EXCEPT !.Text = text, !.Cursor = MoveCursor(text, s.Cursor, 1)]
             IN  Send(s1, OpMsg("insert", s1.Cursor, ch), ok)
        ELSE LET c0 == DeleteCursor(s.Cursor)
                 s1 == [s EXCEPT !.Text = text, !.Cursor = MoveCursor(text, c0, -1)]
             IN  Send(s1, OpMsg("delete", c0, ""), ok)

(***************************************************************************)
(* handleTermboxEvent.  Keys: "Ch" (a key that carries a rune, Enter and   *)
(* Space included), "Backspace", "Delete", "ArrowLeft", "ArrowRight",      *)
(* "Home", "End", "CtrlS", "CtrlL".  Tab is four "Ch" keys of a space in   *)
(* one call; Esc and Ctrl+C end the session; the vertical arrows depend on *)
(* the line layout of the editor: these keys are not among the inputs.     *)
(***************************************************************************)
DefaultFileName == "pairpad-content.txt"

\* LoadSucceeds, were the loaded document assigned before the error check.
LoadAssignsFirst(s, ev) == ev.Key = "CtrlL" /\ s.fileName # ""

\* Lines 49-56: the document is replaced when a file name is set and
\* crdt.Load returns no error.
LoadSucceeds(s, ev) == ev.Key = "CtrlL" /\ s.fileName # "" /\ ev.load.ok

handleTermboxEventDoc(s, ev) ==
    CASE ev.Key = "Ch" -> performOperationDoc(s, OperationInsert, ev.Ch)
      [] ev.Key \in {"Backspace", "Delete"} -> performOperationDoc(s, OperationDelete, ev.Ch)
      [] LoadSucceeds(s, ev) -> [doc |-> ev.load.doc, err |-> "nil"]
      [] OTHER -> [doc |-> s.doc, err |-> "nil"]

Returns(s, v) == [s EXCEPT !.hteRet = v]

handleTermboxEventRest(s, ev) ==
    CASE ev.Key = "CtrlS" ->
            LET fn == IF s.fileName = "" THEN DefaultFileName ELSE s.fileName
                s1 == [s EXCEPT !.fileName = fn]
            IN  IF ev.ok
                THEN Returns(SendDraw(SendStatus(s1, Status("Saved document to %s", fn))), "nil")
                ELSE Returns(SendStatus(s1, Status("Failed to save to %s", fn)), "err")
      [] ev.Key = "CtrlL" ->
            IF s.fileName = ""
            THEN Returns(SendDraw(SendStatus(s, Status("No file to load!", ""))), "nil")
            ELSE IF ~ev.load.ok
            THEN Returns(SendStatus(s, Status("Failed to load %s", s.fileName)), "err")
            ELSE LET s1 == SendStatus(s, Status("Loading %s", s.fileName))
                     s2 == [s1 EXCEPT !.Cursor = 0, !.Text = Content(s.doc)]
                     s3 == IF ev.ok
                           THEN [s2 EXCEPT !.sent = Append(@, DocSyncMsg(s.doc, 0))]
                           ELSE s2
                 IN  Returns(SendDraw(s3), "nil")
      [] ev.Key = "ArrowLeft" ->
            Returns(SendDraw([s EXCEPT !.Cursor = MoveCursor(s.Text, s.Cursor, -1)]), "nil")
      [] ev.Key = "ArrowRight" ->
            Returns(SendDraw([s EXCEPT !.Cursor = MoveCursor(s.Text, s.Cursor, 1)]), "nil")
      [] ev.Key = "Home" -> Returns(SendDraw([s EXCEPT !.Cursor = 0]), "nil")
      [] ev.Key = "End" -> Returns(SendDraw([s EXCEPT !.Cursor = Len(s.Text)]), "nil")
      [] ev.Key \in {"Backspace", "Delete"} ->
            Returns(SendDraw(performOperationRest(s, OperationDelete, ev.Ch, ev.ok)), "nil")
      [] ev.Key = "Ch" ->
            Returns(SendDraw(performOperationRest(s, OperationInsert, ev.Ch, ev.ok)), "nil")
      [] OTHER -> Returns(SendDraw(s), "nil")

(***************************************************************************)
(* handleMsg                                                               *)
(***************************************************************************)
\* handleMsgDoc, were the document of a document-sync message not assigned.
handleMsgDocKeep(s, m) ==
    CASE m.Type \in {DocSyncMessage, DocReqMessage, SiteIDMessage, JoinMessage,
                     UsersMessage} ->
            [doc |-> s.doc, err |-> "nil"]
      [] OTHER ->
            CASE m.OpType = "insert" ->
                    LET r == DocInsert(s.doc, m.Position, m.Value)
                    IN  [doc |-> r.doc, err |-> r.err]
              [] m.OpType = "delete" ->
                    [doc |-> DocDelete(s.doc, m.Position).doc, err |-> "nil"]
              [] OTHER -> [doc |-> s.doc, err |-> "nil"]

\* The document after the first part of handleMsg and the error the
\* handler receives from the document.
handleMsgDoc(s, m) ==
    CASE m.Type = DocSyncMessage -> [doc |-> m.Document, err |-> "nil"]
      [] m.Type \in {DocReqMessage, SiteIDMessage, JoinMessage, UsersMessage} ->
            [doc |-> s.doc, err |-> "nil"]
      [] OTHER ->
            CASE m.OpType = "insert" ->
                    LET r == DocInsert(s.doc, m.Position, m.Value)
                    IN  [doc |-> r.doc, err |-> r.err]
              [] m.OpType = "delete" ->
                    [doc |-> DocDelete(s.doc, m.Position).doc, err |-> "nil"]
              [] OTHER -> [doc |-> s.doc, err |-> "nil"]

handleMsgRest(s, m, ok) ==
    LET text == Content(s.doc)
        s1 ==
          CASE m.Type = DocSyncMessage -> [s EXCEPT !.Text = text]
            [] m.Type = DocReqMessage ->
                  IF ok THEN [s EXCEPT !.sent = Append(@, DocSyncMsg(s.doc, m.ID))] ELSE s
            [] m.Type = SiteIDMessage ->
                  [s EXCEPT !.SiteID = Atoi(m.Text).val, !.siteAssigned = TRUE]
            [] m.Type = JoinMessage ->
                  SendStatus(s, Status("%s has joined the session!", m.Text))
            [] m.Type = UsersMessage -> [s EXCEPT !.Users = SplitUsers(m.Text)]
            [] OTHER ->
                  CASE m.OpType = "insert" ->
                          [s EXCEPT !.Text = text,
                                    !.Cursor = IF m.Position - 1 <= s.Cursor
                                               THEN MoveCursor(text, s.Cursor, ByteLen(m.Value))
                                               ELSE s.Cursor]
                    [] m.OpType = "delete" ->
                          [s EXCEPT !.Text = text,
                                    !.Cursor = IF m.Position - 1 <= s.Cursor
                                               THEN MoveCursor(text, s.Cursor, 0 - ByteLen(m.Value))
                                               ELSE s.Cursor]
                    [] OTHER -> s
    IN  SendDraw(s1)

\* A handler as a function of the state: the state after the whole call.
Entered(s) == [s EXCEPT !.sent = << >>, !.opErr = "nil"]

EventDoc(s, ev) ==
    IF ev.kind = "key" THEN handleTermboxEventDoc(s, ev) ELSE handleMsgDoc(s, ev.msg)

EventRest(s, ev) ==
    IF ev.kind = "key" THEN handleTermboxEventRest(s, ev) ELSE handleMsgRest(s, ev.msg, ev.ok)

Mutated(s, ev) ==
    LET d == EventDoc(s, ev) IN [s EXCEPT !.doc = d.doc, !.opErr = d.err]

Handled(s, ev) == EventRest(Mutated(Entered(s), ev), ev)

(***************************************************************************)
(* Actions of the main loop.                                               *)
(***************************************************************************)
IsOperation(m) == m.Type = "operation"

\* The server relays the operation messages replica r wrote to the other
\* replicas of the session.
Relayed(r, msgs) ==
    [p \in Replicas |->
        IF p \in joined /\ p # r THEN net[p] \o SelectSeq(msgs, IsOperation) ELSE net[p]]

\* The state s of replica r is stored; what the handler wrote is relayed.
\* A handler that would overrun a bound of the model waits.
Commit(r, s) ==
    /\ Len(s.doc) <= MaxNodes
    /\ Len(s.StatusChan) <= MaxStatus
    /\ s.DrawChan <= MaxDraw
    /\ \A p \in Replicas : Len(Relayed(r, s.sent)[p]) <= MaxNet
    /\ doc' = Upd(doc, r, s.doc)
    /\ Text' = Upd(Text, r, s.Text)
    /\ Cursor' = Upd(Cursor, r, s.Cursor)
    /\ IsConnected' = Upd(IsConnected, r, s.IsConnected)
    /\ SiteID' = Upd(SiteID, r, s.SiteID)
    /\ Users' = Upd(Users, r, s.Users)
    /\ fileName' = Upd(fileName, r, s.fileName)
    /\ StatusChan' = Upd(StatusChan, r, s.StatusChan)
    /\ DrawChan' = Upd(DrawChan, r, s.DrawChan)
    /\ sent' = Upd(sent, r, s.sent)
    /\ hteRet' = Upd(hteRet, r, s.hteRet)
    /\ opErr' = Upd(opErr, r, s.opErr)
    /\ siteAssigned' = Upd(siteAssigned, r, s.siteAssigned)
    /\ net' = Relayed(r, s.sent)

\* The main loop: one goroutine that waits in a select for a key event or a
\* message of messageChan and calls the handler of what it received.
mainLoopSelect(r) == mainPc[r] = "select"

\* messageChanSend, were the message handled by the receiving goroutine
\* itself instead of being handed to the main loop.
messageChanSendAnywhere(r) == recvPc[r] = "send"

\* messageChan <- msg (line 270): the channel is unbuffered, so the send
\* completes when the main loop, waiting in its select, receives.
messageChanSend(r) == recvPc[r] = "send" /\ mainLoopSelect(r)

\* The main loop takes a key event and runs handleTermboxEvent to its end.
handleTermboxEvent(r, ev) ==
    /\ mainLoopSelect(r)
    /\ \E s \in {Handled(St(r), ev)} : Commit(r, s)
    /\ pend' = Upd(pend, r, ev)
    /\ UNCHANGED <<statusVars, recvVars, mainPc, joined, typing>>

\* The main loop takes the message of the receiving goroutine and runs
\* handleMsg to its end.
handleMsg(r, ok) ==
    /\ messageChanSend(r)
    /\ \E s \in {Handled(St(r), MsgEv(recvMsg[r], ok))} : Commit(r, s)
    /\ pend' = Upd(pend, r, MsgEv(recvMsg[r], ok))
    /\ recvPc' = Upd(recvPc, r, "read")
    /\ recvMsg' = Upd(recvMsg, r, NoMsg)
    /\ UNCHANGED <<statusVars, readErr, mainPc, joined, typing>>

(***************************************************************************)
(* The same handlers in two steps: the mutation of the document, then the  *)
(* rest of the handler.                                                    *)
(***************************************************************************)
Enter(r, ev) ==
    \E s \in {Mutated(Entered(St(r)), ev)} :
        /\ Len(s.doc) <= MaxNodes
        /\ doc' = Upd(doc, r, s.doc)
        /\ opErr' = Upd(opErr, r, s.opErr)
        /\ sent' = Upd(sent, r, s.sent)
        /\ pend' = Upd(pend, r, ev)
        /\ mainPc' = Upd(mainPc, r, "handler")
        /\ UNCHANGED <<Text, Cursor, IsConnected, SiteID, Users, fileName, StatusChan,
                       DrawChan, hteRet, siteAssigned, net, statusVars, readErr,
                       joined, typing>>

EnterKey(r, ev) ==
    /\ mainLoopSelect(r)
    /\ Enter(r, ev)
    /\ UNCHANGED <<recvPc, recvMsg>>

EnterMsg(r, ok) ==
    /\ messageChanSend(r)
    /\ Enter(r, MsgEv(recvMsg[r], ok))
    /\ recvPc' = Upd(recvPc, r, "read")
    /\ recvMsg' = Upd(recvMsg, r, NoMsg)

Leave(r) ==
    /\ mainPc[r] = "handler"
    /\ \E s \in {EventRest(St(r), pend[r])} : Commit(r, s)
    /\ mainPc' = Upd(mainPc, r, "select")
    /\ UNCHANGED <<statusVars, recvVars, pend, joined, typing>>

(***************************************************************************)
(* getMsgChan: the goroutine that reads the connection.                    *)
(***************************************************************************)
\* conn.ReadJSON returns message m.
ReadJSON(r, m) ==
    /\ recvPc[r] = "read"
    /\ recvMsg' = Upd(recvMsg, r, m)
    /\ recvPc' = Upd(recvPc, r, "send")
    /\ UNCHANGED <<localVars, StatusChan, DrawChan, statusVars, readErr, mainPc, pend,
                   joined, typing>>

\* A message written by a peer of the session.
ReadEnv(r, m) == ReadJSON(r, m) /\ UNCHANGED net

\* ReadNet, were the newest relayed message read first.
ReadNetLast(r) ==
    /\ net[r] # << >>
    /\ ReadJSON(r, net[r][Len(net[r])])
    /\ net' = Upd(net, r, SubSeq(net[r], 1, Len(net[r]) - 1))

\* The next message the server relayed.
ReadNet(r) ==
    /\ net[r] # << >>
    /\ ReadJSON(r, Head(net[r]))
    /\ net' = Upd(net, r, Tail(net[r]))

\* AfterLostConnection, were the loop continued instead of left.
AfterLostConnectionRetry == "read"

\* Where the goroutine continues once it has reported the failed read: the
\* break of line 264 leaves the loop.
AfterLostConnection == "done"

\* conn.ReadJSON returns an error (lines 258-262).
ReadFail(r) ==
    /\ recvPc[r] = "read"
    /\ IsConnected' = Upd(IsConnected, r, FALSE)
    /\ readErr' = Upd(readErr, r, TRUE)
    /\ recvPc' = Upd(recvPc, r, "notify")
    /\ UNCHANGED <<doc, Text, Cursor, SiteID, Users, fileName, sent, hteRet, opErr,
                   siteAssigned, StatusChan, DrawChan, statusVars, recvMsg, mainPc,
                   pend, net, joined, typing>>

\* e.StatusChan <- "lost connection!", then break (lines 263-264).
NotifyLost(r) ==
    /\ recvPc[r] = "notify"
    /\ Len(StatusChan[r]) < MaxStatus
    /\ StatusChan' = Upd(StatusChan, r, Append(StatusChan[r], LostConnection))
    /\ recvPc' = Upd(recvPc, r, AfterLostConnection)
    /\ UNCHANGED <<localVars, DrawChan, statusVars, recvMsg, readErr, mainPc, pend,
                   net, joined, typing>>

(***************************************************************************)
(* handleStatusMsg and drawLoop                                            *)
(***************************************************************************)
\* handleStatusMsgShow, were the newest message of the channel taken first.
handleStatusMsgShowNewest(r) ==
    /\ statusPc[r] = "recv"
    /\ StatusChan[r] # << >>
    /\ DrawChan[r] < MaxDraw
    /\ StatusMsg' = Upd(StatusMsg, r, StatusChan[r][Len(StatusChan[r])])
    /\ ShowMsg' = Upd(ShowMsg, r, TRUE)
    /\ StatusChan' = Upd(StatusChan, r, SubSeq(StatusChan[r], 1, Len(StatusChan[r]) - 1))
    /\ DrawChan' = Upd(DrawChan, r, DrawChan[r] + 1)
    /\ statusPc' = Upd(statusPc, r, "sleep")
    /\ UNCHANGED <<localVars, recvVars, mainPc, pend, net, joined, typing>>

\* The loop of handleStatusMsg up to its sleep (lines 280-289): the next
\* message of the channel is received and shown, and a redraw is requested.
handleStatusMsgShow(r) ==
    /\ statusPc[r] = "recv"
    /\ StatusChan[r] # << >>
    /\ DrawChan[r] < MaxDraw
    /\ StatusMsg' = Upd(StatusMsg, r, Head(StatusChan[r]))
    /\ ShowMsg' = Upd(ShowMsg, r, TRUE)
    /\ StatusChan' = Upd(StatusChan, r, Tail(StatusChan[r]))
    /\ DrawChan' = Upd(DrawChan, r, DrawChan[r] + 1)
    /\ statusPc' = Upd(statusPc, r, "sleep")
    /\ UNCHANGED <<localVars, recvVars, mainPc, pend, net, joined, typing>>

handleStatusMsgHide(r) ==
    /\ statusPc[r] = "sleep"
    /\ DrawChan[r] < MaxDraw
    /\ ShowMsg' = Upd(ShowMsg, r, FALSE)
    /\ DrawChan' = Upd(DrawChan, r, DrawChan[r] + 1)
    /\ statusPc' = Upd(statusPc, r, "recv")
    /\ UNCHANGED <<localVars, StatusChan, StatusMsg, recvVars, mainPc, pend, net,
                   joined, typing>>

drawLoop(r) ==
    /\ DrawChan[r] > 0
    /\ DrawChan' = Upd(DrawChan, r, DrawChan[r] - 1)
    /\ UNCHANGED <<localVars, StatusChan, statusVars, recvVars, mainPc, pend, net,
                   joined, typing>>

(***************************************************************************)
(* Initial states: the replicas of J are in the session, each started with *)
(* one of the file names of F.                                             *)
(***************************************************************************)
InitWith(J, F) ==
    /\ doc = [r \in Replicas |-> NewDoc]
    /\ Text = [r \in Replicas |-> << >>]
    /\ Cursor = [r \in Replicas |-> 0]
    /\ IsConnected = [r \in Replicas |-> r \in J]
    /\ SiteID = [r \in Replicas |-> 0]
    /\ Users = [r \in Replicas |-> << >>]
    /\ \E f \in F : fileName = [r \in Replicas |-> IF r \in J THEN f ELSE ""]
    /\ StatusChan = [r \in Replicas |-> << >>]
    /\ DrawChan = [r \in Replicas |-> 0]
    /\ StatusMsg = [r \in Replicas |-> Status("", "")]
    /\ ShowMsg = [r \in Replicas |-> FALSE]
    /\ statusPc = [r \in Replicas |-> "recv"]
    /\ recvPc = [r \in Replicas |-> "read"]
    /\ recvMsg = [r \in Replicas |-> NoMsg]
    /\ readErr = [r \in Replicas |-> FALSE]
    /\ mainPc = [r \in Replicas |-> "select"]
    /\ pend = [r \in Replicas |-> NoEv]
    /\ sent = [r \in Replicas |-> << >>]
    /\ hteRet = [r \in Replicas |-> "nil"]
    /\ opErr = [r \in Replicas |-> "nil"]
    /\ siteAssigned = [r \in Replicas |-> FALSE]
    /\ net = [r \in Replicas |-> << >>]
    /\ joined = J
    /\ typing = TRUE

(***************************************************************************)
(* Spec: one replica and its connection.  The user types, deletes and      *)
(* moves the cursor; the connection delivers operations of peers, document *)
(* snapshots, fails to write, and fails to read.                            *)
(***************************************************************************)
Outcomes == BOOLEAN

EditKeys ==
    {KeyEv("Ch", ch, ok, LoadErr) : ch \in {"a", "b"}, ok \in Outcomes}
    \cup {KeyEv("Backspace", "", ok, LoadErr) : ok \in Outcomes}
MoveKeys == {KeyEv(k, "", TRUE, LoadErr) : k \in {"ArrowLeft", "End"}}

PeerMsgs == {OpMsg("insert", 1, "b"), OpMsg("delete", 1, ""), DocSyncMsg(NewDoc, 0)}

Init == InitWith({1}, {""})

Next ==
    \E r \in {1} :
        \/ \E ev \in EditKeys \cup MoveKeys : handleTermboxEvent(r, ev)
        \/ handleMsg(r, TRUE)
        \/ \E m \in PeerMsgs : ReadEnv(r, m)
        \/ ReadFail(r)
        \/ NotifyLost(r)
        \/ handleStatusMsgShow(r)
        \/ handleStatusMsgHide(r)
        \/ drawLoop(r)

Spec == Init /\ [][Next]_vars

(***************************************************************************)
(* SpecConv: two replicas of one session.  Both start from the empty       *)
(* document; while the users type, each replica applies its own edits and  *)
(* writes their messages; once they have stopped, the messages the server  *)
(* relayed are read and handled, in any interleaving.                      *)
(***************************************************************************)
ConvKeys ==
    {KeyEv("Ch", ch, TRUE, LoadErr) : ch \in {"a", "b"}}
    \cup {KeyEv("Backspace", "", TRUE, LoadErr)}

InitConv == InitWith({1, 2}, {""})

Type(r, ev) == typing /\ handleTermboxEvent(r, ev)

StopTyping ==
    /\ typing
    /\ typing' = FALSE
    /\ UNCHANGED <<localVars, StatusChan, DrawChan, statusVars, recvVars, mainPc,
                   pend, net, joined>>

Deliver(r) == ~typing /\ ReadNet(r)

NextConv ==
    \/ StopTyping
    \/ \E r \in Replicas :
        \/ \E ev \in ConvKeys : Type(r, ev)
        \/ Deliver(r)
        \/ handleMsg(r, TRUE)
        \/ drawLoop(r)

SpecConv == InitConv /\ [][NextConv]_vars

\* Every message written has been read and handled on the other side.
Exchanged ==
    /\ ~typing
    /\ \A r \in Replicas :
        net[r] = << >> /\ recvPc[r] = "read" /\ mainPc[r] = "select" /\ IsConnected[r]

\* C1: two replicas that start from the empty document, apply their own
\* edits and then each other's messages hold the same visible content once
\* every message has been applied on both sides.
C1_Convergence == Exchanged => Content(doc[1]) = Content(doc[2])

(***************************************************************************)
(* Remote apply as a function of the state.                                *)
(***************************************************************************)
Positions == 0 .. MaxNodes + 1

OperationMsgs ==
    {OpMsg("insert", p, v) : p \in Positions, v \in Chars}
    \cup {OpMsg("delete", p, "") : p \in Positions}

RemoteApply(s, m) == Handled(s, MsgEv(m, TRUE))

\* C2: handling the same operation message twice leaves the same visible
\* content as handling it once.
C2_Idempotent ==
    \A r \in joined : \A m \in OperationMsgs :
        Content(RemoteApply(RemoteApply(St(r), m), m).doc)
            = Content(RemoteApply(St(r), m).doc)

\* C3: handling two operation messages of two different sites in either
\* order leaves the same visible content.
C3_OrderIndependent ==
    \A r \in joined : \A A, B \in OperationMsgs :
        Content(RemoteApply(RemoteApply(St(r), A), B).doc)
            = Content(RemoteApply(RemoteApply(St(r), B), A).doc)

(***************************************************************************)
(* SpecSteps: one replica, every handler taken in two steps, so that the   *)
(* other goroutines run between the mutation of the document and the read  *)
(* of its content.                                                         *)
(***************************************************************************)
StepKeys ==
    {KeyEv("Ch", "a", TRUE, LoadErr), KeyEv("Backspace", "", TRUE, LoadErr),
     KeyEv("CtrlL", "", TRUE, Loaded(<<Node("a")>>))}

StepMsgs ==
    {OpMsg("insert", 1, "b"), OpMsg("delete", 1, ""), DocSyncMsg(<<Node("a")>>, 0)}

InitSteps == InitWith({1}, {"notes.txt"})

NextSteps ==
    \E r \in {1} :
        \/ \E ev \in StepKeys : EnterKey(r, ev)
        \/ EnterMsg(r, TRUE)
        \/ Leave(r)
        \/ \E m \in StepMsgs : ReadEnv(r, m)
        \/ handleStatusMsgShow(r)
        \/ handleStatusMsgHide(r)
        \/ drawLoop(r)

SpecSteps == InitSteps /\ [][NextSteps]_vars

\* The events whose handler mutates the document and then reads its content.
MutatesDoc(s, ev) ==
    \/ ev.kind = "key" /\ (ev.Key \in {"Ch", "Backspace", "Delete"} \/ LoadSucceeds(s, ev))
    \/ ev.kind = "msg" /\ (ev.msg.Type = DocSyncMessage
                           \/ (IsOperation(ev.msg) /\ ev.msg.OpType \in {"insert", "delete"}))

InsertAt(t, c, ch) == SubSeq(t, 1, c) \o <<ch>> \o SubSeq(t, c + 1, Len(t))
RemoveAt(t, c) == SubSeq(t, 1, c - 1) \o SubSeq(t, c + 1, Len(t))

\* C5: a local insert at a position outside the visible bounds leaves the
\* content and the cursor unchanged and sends a status notification.
C5_RejectedInsert ==
    [][\A r \in joined : \A ev \in EditKeys :
          (/\ ev.Key = "Ch"
           /\ Cursor[r] > VisibleLength(doc[r])
           /\ handleTermboxEvent(r, ev))
          => /\ Content(doc'[r]) = Content(doc[r])
             /\ Cursor'[r] = Cursor[r]
             /\ Len(StatusChan'[r]) = Len(StatusChan[r]) + 1]_vars

\* C6: a local delete on a document without visible characters fails with
\* an index-out-of-range error and leaves the content unchanged.
C6_DeleteOnEmpty ==
    [][\A r \in joined : \A ev \in EditKeys :
          (/\ ev.Key = "Backspace"
           /\ VisibleLength(doc[r]) = 0
           /\ handleTermboxEvent(r, ev))
          => /\ opErr'[r] = "IndexOutOfRange"
             /\ Content(doc'[r]) = Content(doc[r])]_vars

\* C7: once a read of the connection has failed the receiving goroutine is
\* past its loop: the replica is disconnected, the goroutine holds no
\* message to forward and is either about to report the lost connection or
\* done, and the step that ends it sends "lost connection!" on the status
\* channel.
C7_ReceiverStops ==
    /\ [](\A r \in Replicas :
            readErr[r] => /\ ~IsConnected[r]
                          /\ recvPc[r] \in {"notify", "done"}
                          /\ recvMsg[r] = NoMsg)
    /\ [][\A r \in Replicas :
            readErr[r] /\ recvPc'[r] # recvPc[r]
                => /\ recvPc'[r] = "done"
                   /\ StatusChan'[r] = Append(StatusChan[r], LostConnection)]_vars

\* The goroutine has ended after a failed read while the main loop went on.
C7_Witness ==
    /\ recvPc[1] = "done"
    /\ readErr[1]
    /\ pend[1].Key = "Ch"
    /\ Text[1] # << >>

\* C8: a local insert or delete at a valid position is applied to the
\* document and shown in the editor text, and the key handler returns no
\* error, whether the replica is connected or not and whether the write
\* fails or not; a failed write is reported as the lost-connection status.
C8_OfflineEditing ==
    [][\A r \in joined : \A ev \in EditKeys :
          pend'[r] = ev /\ handleTermboxEvent(r, ev) =>
            LET t == Content(doc[r])
                c == Cursor[r]
            IN  /\ (ev.Key = "Ch" /\ c <= Len(t)
                        => /\ Content(doc'[r]) = InsertAt(t, c, ev.Ch)
                           /\ Text'[r] = Content(doc'[r])
                           /\ hteRet'[r] = "nil")
                /\ (ev.Key = "Backspace" /\ 1 <= c /\ c <= Len(t)
                        => /\ Content(doc'[r]) = RemoveAt(t, c)
                           /\ Text'[r] = Content(doc'[r])
                           /\ hteRet'[r] = "nil")
                /\ (IsConnected[r] /\ ~IsConnected'[r]
                        => StatusChan'[r] = Append(StatusChan[r], LostConnection))]_vars

\* The latest key typed a character into a disconnected replica: nothing
\* was written and the character is in the text.
C8_Witness ==
    /\ pend[1].Key = "Ch"
    /\ ~IsConnected[1]
    /\ sent[1] = << >>
    /\ opErr[1] = "nil"
    /\ Len(Text[1]) >= 2

(***************************************************************************)
(* SpecFile: one replica whose user types, saves and loads.                *)
(***************************************************************************)
FileKeys ==
    {KeyEv("Ch", "a", TRUE, LoadErr), KeyEv("ArrowLeft", "", TRUE, LoadErr)}
    \cup {KeyEv("CtrlS", "", ok, LoadErr) : ok \in Outcomes}
    \cup {KeyEv("CtrlL", "", ok, l) : ok \in Outcomes, l \in {LoadErr, Loaded(<<Node("b")>>)}}

InitFile == InitWith({1}, {"", "notes.txt"})

NextFile ==
    \E r \in {1} :
        \/ \E ev \in FileKeys : handleTermboxEvent(r, ev)
        \/ handleStatusMsgShow(r)
        \/ handleStatusMsgHide(r)
        \/ drawLoop(r)

SpecFile == InitFile /\ [][NextFile]_vars

\* C9: a load that fails, or that has no file name, leaves the document,
\* the editor text and the cursor as they were and writes no message.
C9_FailedLoad ==
    [][\A r \in joined : \A ev \in FileKeys :
          (/\ ev.Key = "CtrlL"
           /\ (fileName[r] = "" \/ ~ev.load.ok)
           /\ handleTermboxEvent(r, ev))
          => /\ doc'[r] = doc[r]
             /\ Text'[r] = Text[r]
             /\ Cursor'[r] = Cursor[r]
             /\ sent'[r] = << >>]_vars

\* A load has just failed on a document that holds text, the cursor inside.
C9_Witness ==
    /\ pend[1].Key = "CtrlL"
    /\ hteRet[1] = "err"
    /\ Text[1] # << >>
    /\ Cursor[1] > 0

(***************************************************************************)
(* SpecSite: one replica whose connection delivers site assignments among  *)
(* the operations of a peer, while the user types.                         *)
(***************************************************************************)
SiteKeys == {KeyEv("Ch", "a", TRUE, LoadErr)}

SiteMsgs == {SiteIDMsg("1"), SiteIDMsg("2"), SiteIDMsg("x"), OpMsg("insert", 1, "b")}

InitSite == InitWith({1}, {""})

NextSite ==
    \E r \in {1} :
        \/ \E ev \in SiteKeys : handleTermboxEvent(r, ev)
        \/ handleMsg(r, TRUE)
        \/ \E m \in SiteMsgs : ReadEnv(r, m)
        \/ drawLoop(r)

SpecSite == InitSite /\ [][NextSite]_vars

\* C10: once a site-assignment message has been handled no step changes
\* crdt.SiteID.
C10_SiteIDImmutable ==
    [][\A r \in Replicas : siteAssigned[r] => SiteID'[r] = SiteID[r]]_vars

(***************************************************************************)
(* SpecFifo: two replicas of one session.  The user of replica 1 types    *)
(* and deletes; replica 2 reads and handles what the server relayed while  *)
(* its own user types.                                                     *)
(***************************************************************************)
WriterKeys == {KeyEv("Ch", "a", TRUE, LoadErr), KeyEv("Backspace", "", TRUE, LoadErr)}
FifoKeys == {KeyEv("Ch", "b", TRUE, LoadErr)}

NextFifo ==
    \/ \E ev \in WriterKeys : handleTermboxEvent(1, ev)
    \/ \E ev \in FifoKeys : handleTermboxEvent(2, ev)
    \/ ReadNet(2)
    \/ handleMsg(2, TRUE)
    \/ \E r \in Replicas : drawLoop(r)

SpecFifo == InitConv /\ [][NextFifo]_vars

\* The operation message performOperation builds for a local edit made
\* at cursor c of document d.
EditMsg(d, c, ev) ==
    IF ev.Key = "Ch"
    THEN OpMsg("insert", MoveCursor(Content(DocInsert(d, c + 1, ev.Ch).doc), c, 1), ev.Ch)
    ELSE OpMsg("delete", DeleteCursor(c), "")

\* C11: the step that applies a local edit to the document writes the
\* message of that edit, behind every message written before; messages
\* leave the connection at its head only; and the message the receiving
\* goroutine has read is the one handleMsg applies next, before another
\* is read.
C11_FifoPerSite ==
    [][\A r \in joined :
          /\ \A ev \in WriterKeys \cup FifoKeys :
                pend'[r] = ev /\ handleTermboxEvent(r, ev) =>
                    /\ sent'[r] = <<EditMsg(doc[r], Cursor[r], ev)>>
                    /\ doc'[r] = performOperationDoc(St(r), IF ev.Key = "Ch"
                                                             THEN OperationInsert
                                                             ELSE OperationDelete, ev.Ch).doc
                    /\ \A p \in joined \ {r} : net'[p] = net[p] \o sent'[r]
          /\ (net'[r] # net[r] /\ Len(net'[r]) <= Len(net[r]) =>
                    /\ net'[r] = Tail(net[r])
                    /\ recvPc[r] = "read" /\ recvPc'[r] = "send"
                    /\ recvMsg'[r] = Head(net[r]))
          /\ (recvPc[r] = "send" =>
                    \/ recvPc'[r] = "send" /\ recvMsg'[r] = recvMsg[r]
                    \/ /\ recvPc'[r] = "read"
                       /\ doc'[r] = handleMsgDoc(St(r), recvMsg[r]).doc)]_vars

\* Replica 1 has written three messages; replica 2 has applied the first,
\* holds the second and has yet to read the third.
C11_Witness ==
    /\ pend[2].kind = "msg"
    /\ pend[2].msg = OpMsg("insert", 1, "a")
    /\ recvPc[2] = "send"
    /\ recvMsg[2] = OpMsg("insert", 2, "a")
    /\ net[2] = <<OpMsg("delete", 2, "")>>

(***************************************************************************)
(* Remote messages handleMsg cannot interpret or apply.                    *)
(***************************************************************************)
UnknownOpMsgs == {OpMsg("replace", p, v) : p \in Positions, v \in Chars}

\* The remote inserts the document d rejects.
RejectedInserts(d) ==
    {m \in OperationMsgs :
        m.OpType = "insert" /\ DocInsert(d, m.Position, m.Value).err # "nil"}

\* C12: handling an operation message of an unknown type, or a remote
\* insert the document rejects, leaves the content of the document and the
\* cursor as they were.
C12_DroppedUnchanged ==
    \A r \in joined : \A m \in UnknownOpMsgs \cup RejectedInserts(doc[r]) :
        /\ Content(RemoteApply(St(r), m).doc) = Content(doc[r])
        /\ RemoteApply(St(r), m).Cursor = Cursor[r]

(***************************************************************************)
(* Local inserts and the cursor.                                           *)
(***************************************************************************)
\* Whether t is u with one element taken out at index i (counted from 1).
IsInsertionAt(t, u, i) ==
    /\ Len(t) = Len(u) + 1
    /\ \A k \in 1 .. Len(u) : u[k] = t[IF k < i THEN k ELSE k + 1]

\* C13: a local insert of a rune at a cursor c within the visible content
\* makes the rune the visible character at index c (counted from 0) of the
\* new content, keeps the other visible characters in their order, and
\* leaves the cursor at c + 1.
C13_IndexMonotonicity ==
    [][\A r \in joined : \A ev \in EditKeys :
          pend'[r] = ev /\ handleTermboxEvent(r, ev) =>
            LET c == Cursor[r]
            IN  ev.Key = "Ch" /\ c <= VisibleLength(doc[r]) =>
                    /\ Content(doc'[r])[c + 1] = ev.Ch
                    /\ IsInsertionAt(Content(doc'[r]), Content(doc[r]), c + 1)
                    /\ Text'[r] = Content(doc'[r])
                    /\ Cursor'[r] = c + 1]_vars

\* The latest key typed "b" between two characters: it is the second
\* character and the cursor stands behind it.
C13_Witness ==
    /\ pend[1].Key = "Ch"
    /\ pend[1].Ch = "b"
    /\ Text[1] = <<"a", "b", "a">>
    /\ Cursor[1] = 2

(***************************************************************************)
(* SpecSnap: one replica whose connection delivers document requests and   *)
(* document snapshots while the user types; the write of a snapshot        *)
(* succeeds or fails.                                                      *)
(***************************************************************************)
SnapKeys == {KeyEv("Ch", "a", TRUE, LoadErr), KeyEv("Backspace", "", TRUE, LoadErr)}

\* A snapshot that holds a tombstone.
SnapDoc == <<[Value |-> "a", Visible |-> FALSE], Node("b")>>

SnapMsgs == {DocReqMsg(1), DocReqMsg(2), DocSyncMsg(SnapDoc, 0), DocSyncMsg(NewDoc, 0)}

NextSnap ==
    \E r \in {1} :
        \/ \E ev \in SnapKeys : handleTermboxEvent(r, ev)
        \/ \E ok \in Outcomes : handleMsg(r, ok)
        \/ \E m \in SnapMsgs : ReadEnv(r, m)
        \/ drawLoop(r)

SpecSnap == InitSite /\ [][NextSnap]_vars

\* C14: handling a document request leaves the document as it is and
\* writes, when the connection takes the write, one document-sync message
\* that carries the document and the identifier of the requester; handling
\* a document-sync message makes the document the one of the message, and
\* the visible content and the editor text the content of that document.
C14_SnapshotExchange ==
    [][\A r \in joined : \A ok \in Outcomes :
          LET m == recvMsg[r]
          IN  pend'[r] = MsgEv(m, ok) /\ handleMsg(r, ok) =>
                /\ (m.Type = DocReqMessage =>
                        /\ doc'[r] = doc[r]
                        /\ sent'[r] = IF ok THEN <<DocSyncMsg(doc[r], m.ID)>> ELSE << >>)
                /\ (m.Type = DocSyncMessage =>
                        /\ doc'[r] = m.Document
                        /\ Content(doc'[r]) = Content(m.Document)
                        /\ Text'[r] = Content(m.Document))]_vars

\* The replica took a snapshot, its user typed behind it, and the latest
\* message handled is a request of site 2 answered with that document.
C14_Witness ==
    /\ pend[1].msg = DocReqMsg(2)
    /\ Text[1] = <<"b", "a">>
    /\ sent[1] = <<DocSyncMsg(<<[Value |-> "a", Visible |-> FALSE], Node("b"), Node("a")>>, 2)>>

(***************************************************************************)
(* What a local edit transmits.                                            *)
(***************************************************************************)
\* The position performOperation passes to doc.Insert (line 143) or to
\* doc.Delete (line 162) for a key pressed at cursor c.
DocOpPosition(c, ev) == IF ev.Key = "Ch" THEN c + 1 ELSE DeleteCursor(c)

\* C15: the message of a local edit carries the position the document
\* operation was called with, and a replica that holds the same content
\* and handles the message holds the same content as the editing replica
\* afterwards.
C15_SequentialAgreement ==
    [][\A r \in joined : \A ev \in EditKeys :
          pend'[r] = ev /\ handleTermboxEvent(r, ev) =>
            \A i \in 1 .. Len(sent'[r]) :
                /\ sent'[r][i].Position = DocOpPosition(Cursor[r], ev)
                /\ Content(RemoteApply(St(r), sent'[r][i]).doc) = Content(doc'[r])]_vars

\* C16: a local insert or delete writes an operation message only when it
\* changed the document.
C16_RejectedNotSent ==
    [][\A r \in joined : \A ev \in EditKeys :
          pend'[r] = ev /\ handleTermboxEvent(r, ev) =>
            (sent'[r] # << >> => doc'[r] # doc[r])]_vars

(***************************************************************************)
(* The cursor under remote edits.                                          *)
(***************************************************************************)
\* The operation messages the document d applies: inserts and deletes at a
\* position d accepts.
AppliedMsgs(d) ==
    {m \in OperationMsgs :
        \/ m.OpType = "insert" /\ DocInsert(d, m.Position, m.Value).err = "nil"
        \/ m.OpType = "delete" /\ DocDelete(d, m.Position).err = "nil"}

\* C17: a remote insert applied before the cursor moves the cursor right by
\* one, a remote delete applied before the cursor moves it left by one, and
\* a remote edit applied behind the cursor leaves it where it is.  The
\* character with index Position - 1 (counted from 0) is before the cursor c
\* when Position - 1 < c and behind it when Position - 1 > c.
C17_CursorStability ==
    \A r \in joined : \A m \in AppliedMsgs(doc[r]) :
        LET c == Cursor[r]
            n == RemoteApply(St(r), m).Cursor
        IN  c <= Len(Text[r]) =>
              /\ (m.Position - 1 < c => n = IF m.OpType = "insert" THEN c + 1 ELSE c - 1)
              /\ (m.Position - 1 > c => n = c)

(***************************************************************************)
(* SpecRace: one replica whose goroutine of getMsgChan runs between the    *)
(* read of e.IsConnected (line 169) and the write to the connection (line  *)
(* 171) of performOperation.  Neither goroutine holds a lock on            *)
(* e.IsConnected.                                                          *)
(***************************************************************************)
RaceKeys ==
    {KeyEv("Ch", "a", ok, LoadErr) : ok \in Outcomes}
    \cup {KeyEv("Backspace", "", TRUE, LoadErr)}

OpTypeOf(ev) == IF ev.Key = "Ch" THEN OperationInsert ELSE OperationDelete

\* handleTermboxEvent up to the write of performOperation: the document is
\* mutated, text and cursor are set, the message is built, and e.IsConnected
\* is read as true.  The message waits in pend[r].msg.
performOperationUntilWrite(r, ev) ==
    /\ mainLoopSelect(r)
    /\ IsConnected[r]
    /\ \E s \in {performOperationRest(Mutated(Entered(St(r)), ev), OpTypeOf(ev), ev.Ch, TRUE)} :
          /\ Commit(r, [s EXCEPT !.sent = << >>])
          /\ pend' = Upd(pend, r, [ev EXCEPT !.msg = s.sent[1]])
    /\ mainPc' = Upd(mainPc, r, "write")
    /\ UNCHANGED <<statusVars, recvVars, joined, typing>>

\* conn.WriteJSON(msg) and the rest of the handler (lines 171-175, 124-125).
performOperationWrite(r) ==
    /\ mainPc[r] = "write"
    /\ \E s \in {IF pend[r].ok
                 THEN [St(r) EXCEPT !.sent = <<pend[r].msg>>]
                 ELSE SendStatus([St(r) EXCEPT !.IsConnected = FALSE], LostConnection)} :
          Commit(r, Returns(SendDraw(s), "nil"))
    /\ mainPc' = Upd(mainPc, r, "select")
    /\ UNCHANGED <<statusVars, recvVars, pend, joined, typing>>

NextRace ==
    \E r \in {1} :
        \/ \E ev \in RaceKeys : handleTermboxEvent(r, ev)
        \/ \E ev \in RaceKeys : performOperationUntilWrite(r, ev)
        \/ performOperationWrite(r)
        \/ ReadFail(r)
        \/ NotifyLost(r)
        \/ handleStatusMsgShow(r)
        \/ handleStatusMsgHide(r)
        \/ drawLoop(r)

SpecRace == InitSite /\ [][NextRace]_vars

\* C18: once e.IsConnected is false no step makes it true, and no step of
\* a local insert or delete writes an operation message to the connection.
C18_OnceDisconnectedSilent ==
    [][\A r \in joined :
          ~IsConnected[r] =>
              /\ ~IsConnected'[r]
              /\ ~(mainPc[r] = "write" /\ mainPc'[r] = "select" /\ sent'[r] # << >>)
              /\ \A ev \in RaceKeys :
                    pend'[r] = ev /\ handleTermboxEvent(r, ev) => sent'[r] = << >>]_vars

\* C19: the cursor of every replica lies within its editor text.
C19_CursorBounds ==
    \A r \in joined : 0 <= Cursor[r] /\ Cursor[r] <= Len(Text[r])

(***************************************************************************)
(* SpecStatus: one replica whose key handler, performOperation and         *)
(* goroutine of getMsgChan send on e.StatusChan, with handleStatusMsg and  *)
(* drawLoop scheduled fairly.  A goroutine blocked on a channel is served  *)
(* in its turn by the Go runtime, hence the strong fairness of the steps   *)
(* that send: they are disabled while the channel is full.                 *)
(***************************************************************************)
StatusKeys ==
    {KeyEv("CtrlS", "", TRUE, LoadErr), KeyEv("Ch", "a", FALSE, LoadErr)}

\* The status messages sent under SpecStatus.
StatusValues ==
    {LostConnection, Status("Saved document to %s", DefaultFileName)}

NextStatus ==
    \E r \in {1} :
        \/ \E ev \in StatusKeys : handleTermboxEvent(r, ev)
        \/ ReadFail(r)
        \/ NotifyLost(r)
        \/ handleStatusMsgShow(r)
        \/ handleStatusMsgHide(r)
        \/ drawLoop(r)

FairStatus ==
    /\ SF_vars(handleStatusMsgShow(1))
    /\ SF_vars(handleStatusMsgHide(1))
    /\ SF_vars(NotifyLost(1))
    /\ WF_vars(drawLoop(1))

SpecStatus == InitSite /\ [][NextStatus]_vars /\ FairStatus

InStatusChan(r, v) == \E i \in 1 .. Len(StatusChan[r]) : StatusChan[r][i] = v

\* C20: every message in the status channel is eventually shown, a shown
\* message is eventually hidden, the message shown by a step is the oldest
\* of the channel, and a sender does not wait for ever: the goroutine of
\* getMsgChan gets past its send, and a full channel gets room again.
C20_StatusDelivery ==
    /\ \A v \in StatusValues :
          InStatusChan(1, v) ~> (ShowMsg[1] /\ StatusMsg[1] = v)
    /\ ShowMsg[1] ~> ~ShowMsg[1]
    /\ [][~ShowMsg[1] /\ ShowMsg'[1] =>
            /\ StatusMsg'[1] = Head(StatusChan[1])
            /\ StatusChan'[1] = Tail(StatusChan[1])]_vars
    /\ (recvPc[1] = "notify") ~> (recvPc[1] = "done")
    /\ (Len(StatusChan[1]) = MaxStatus) ~> (Len(StatusChan[1]) < MaxStatus)

\* The lost connection is shown while a message of the key handler waits
\* in the channel and the channel is full.
C20_Witness ==
    /\ ShowMsg[1]
    /\ StatusMsg[1] = LostConnection
    /\ Len(StatusChan[1]) = MaxStatus
    /\ StatusChan[1][1] = Status("Saved document to %s", DefaultFileName)
    /\ recvPc[1] = "done"
====
